---- MODULE Spec2Model ----
(***************************************************************************)
(* Scripts/update-word-lists.py: WordListUpdater.                          *)
(*                                                                         *)
(* Text is a sequence of character codes (ASCII), a word set is a set of   *)
(* such sequences, a file is its text or NoFile.  One step of the model is *)
(* one statement group of run() and of the methods it calls; a run is one  *)
(* process (main() builds one WordListUpdater and calls run() once).       *)
(***************************************************************************)
EXTENDS Integers, Sequences, FiniteSets

(* ------------------------------------------------------------------ *)
(* Bounds                                                                *)
(* ------------------------------------------------------------------ *)

\* Number of successive invocations of the script that are explored.
MaxRuns == 2

(* ------------------------------------------------------------------ *)
(* Characters and the str operations the script uses                     *)
(* ------------------------------------------------------------------ *)

NL == 10
CR == 13
SP == 32

\* str.isspace() on ASCII: the characters str.strip() removes.
IsSpace(c) == c \in {9, 10, 11, 12, 13, 28, 29, 30, 31, 32}

IsUpper(c) == c >= 65 /\ c <= 90

IsLower(c) == c >= 97 /\ c <= 122

\* str.isalpha(), on ASCII text: non-empty and letters only.
isalpha(w) == Len(w) > 0 /\ \A i \in 1..Len(w) : IsUpper(w[i]) \/ IsLower(w[i])

\* str.lower(), on ASCII text.
lower(w) == [i \in 1..Len(w) |-> IF IsUpper(w[i]) THEN w[i] + 32 ELSE w[i]]

RECURSIVE lstrip(_)
lstrip(s) == IF s = <<>> THEN s
             ELSE IF IsSpace(Head(s)) THEN lstrip(Tail(s)) ELSE s

RECURSIVE rstrip(_)
rstrip(s) == IF s = <<>> THEN s
             ELSE IF IsSpace(s[Len(s)]) THEN rstrip(SubSeq(s, 1, Len(s) - 1)) ELSE s

\* str.strip(): leading and trailing whitespace of the WHOLE text.
strip(s) == rstrip(lstrip(s))

\* str.split('\n'): always at least one piece; '' splits to [''].
RECURSIVE split(_)
split(s) ==
    IF \A i \in 1..Len(s) : s[i] # NL THEN <<s>>
    ELSE LET i == CHOOSE k \in 1..Len(s) :
                      s[k] = NL /\ \A j \in 1..(k - 1) : s[j] # NL
         IN  <<SubSeq(s, 1, i - 1)>> \o split(SubSeq(s, i + 1, Len(s)))

\* '\n'.join(list)
RECURSIVE join(_)
join(l) == IF l = <<>> THEN <<>>
           ELSE IF Len(l) = 1 THEN l[1]
           ELSE l[1] \o <<NL>> \o join(Tail(l))

\* str < str: lexicographic by code point.
StrLess(a, b) ==
    \E i \in 1..Len(b) :
        /\ i <= Len(a) + 1
        /\ \A j \in 1..(i - 1) : a[j] = b[j]
        /\ (i = Len(a) + 1 \/ a[i] < b[i])

\* sorted(set of str)
RECURSIVE sorted(_)
sorted(S) ==
    IF S = {} THEN <<>>
    ELSE LET m == CHOOSE x \in S : \A y \in S \ {x} : StrLess(x, y)
         IN  <<m>> \o sorted(S \ {m})

\* set(list)
set(l) == {l[i] : i \in 1..Len(l)}

\* open(..., 'r', newline=None).read(): universal newlines, "\r\n" and "\r"
\* both read as "\n".
RECURSIVE TranslateNewlines(_)
TranslateNewlines(b) ==
    IF b = <<>> THEN <<>>
    ELSE IF Head(b) = CR
         THEN IF Len(b) >= 2 /\ b[2] = NL
              THEN <<NL>> \o TranslateNewlines(SubSeq(b, 3, Len(b)))
              ELSE <<NL>> \o TranslateNewlines(Tail(b))
         ELSE <<Head(b)>> \o TranslateNewlines(Tail(b))

(* ------------------------------------------------------------------ *)
(* File system                                                           *)
(* ------------------------------------------------------------------ *)

\* The value of a path that holds no file: no text contains the code -1.
NoFile == <<-1>>

\* Path.exists() for a file
exists(f) == f # NoFile

\* Path.read_text(encoding='utf-8')
read_text(f) == TranslateNewlines(f)

\* Path.write_text(text, encoding='utf-8') where os.linesep is "\n"
write_text(text) == text

DATA_DIR == "Data"
WWWROOT_DATA_DIR == "wwwroot/data"
BACKUP_DIR == "Data/backups"

\* The order of the loops of backup_files and sync_to_wwwroot.
FileNames == <<"words.txt", "common-words.txt", "past-answers.txt">>

Names == set(FileNames)

\* range(3) of fetch_url
MaxAttempts == 3

\* The seconds a run's backup timestamp can show.
Timestamps == 0..(MaxRuns - 1)

\* set(existing_file.read_text(encoding='utf-8').strip().split('\n'))
ReadWordSet(f) == set(split(strip(read_text(f))))

\* '\n'.join(sorted(words))
Content(words) == join(sorted(words))

(* ------------------------------------------------------------------ *)
(* Inputs: local files and remote servers a run can meet                 *)
(* ------------------------------------------------------------------ *)

apple == <<97, 112, 112, 108, 101>>
beach == <<98, 101, 97, 99, 104>>
crane == <<99, 114, 97, 110, 101>>
zebra == <<122, 101, 98, 114, 97>>
ZEBRA == <<90, 69, 66, 82, 65>>
Apple == <<65, 112, 112, 108, 101>>
ab1de == <<97, 98, 49, 100, 101>>
abc == <<97, 98, 99>>
toolong == <<116, 111, 111, 108, 111, 110, 103>>

\* words.txt before the first run: absent; unsorted with a final newline;
\* empty; a line that starts with a blank; CRLF line ends.
WordsTxtChoices ==
    { NoFile,
      join(<<beach, apple>>) \o <<NL>>,
      <<>>,
      apple \o <<NL, SP>> \o zebra,
      apple \o <<CR, NL>> \o beach \o <<CR, NL>> }

PastTxtChoices == { NoFile, join(<<apple, beach>>), <<>> }

CommonTxtChoices == { NoFile, zebra \o <<NL>> }

\* wordle.json as served: `failures` requests fail before one succeeds
\* (MaxAttempts: the server is down); the body is JSON or not, with or
\* without the key 'solutions'.
AnswerServers ==
    { [failures |-> 3, json |-> FALSE, has_solutions |-> FALSE, solutions |-> <<>>],
      [failures |-> 0, json |-> TRUE, has_solutions |-> TRUE, solutions |-> <<ZEBRA, toolong>>],
      [failures |-> 1, json |-> TRUE, has_solutions |-> TRUE, solutions |-> <<abc>>],
      [failures |-> 2, json |-> FALSE, has_solutions |-> FALSE, solutions |-> <<>>],
      [failures |-> 0, json |-> TRUE, has_solutions |-> FALSE, solutions |-> <<>>] }

\* words_alpha.txt as served.
WordlistServers ==
    { [failures |-> 3, text |-> <<>>],
      [failures |-> 0, text |-> join(<<zebra, ab1de, abc, Apple>>)],
      [failures |-> 2, text |-> beach \o <<CR, NL>> \o zebra \o <<CR, NL>>] }

\* wwwroot/data before the first run: absent, or holding older copies.
WwwChoices == { [n \in Names |-> NoFile], [n \in Names |-> crane] }

\* The files write_text cannot open for writing (PermissionError, an OSError):
\* none, words.txt, or the copy of past-answers.txt under wwwroot.
ReadOnlyChoices ==
    { {}, {<<DATA_DIR, "words.txt">>}, {<<WWWROOT_DATA_DIR, "past-answers.txt">>} }

(* ------------------------------------------------------------------ *)
(* State                                                                 *)
(* ------------------------------------------------------------------ *)

VARIABLES
    dirs,            \* the directories that exist
    data,            \* Data/<name>: text or NoFile
    www,             \* wwwroot/data/<name>: text or NoFile
    backups,         \* Data/backups/<stem>_<timestamp>.txt: text or NoFile
    clock,           \* datetime.now(), in seconds
    answers_server,  \* what WORDLE_ANSWERS_URL serves
    wordlist_server, \* what FALLBACK_SCRABBLE_URL serves
    read_only,       \* the files that cannot be written
    dry_run,         \* self.dry_run
    changes_made,    \* self.changes_made
    run_no,          \* which invocation of the script this is
    pc,              \* the statement run() is at
    ret,             \* run()'s return value, -1 while it runs
    url,             \* fetch_url: its argument
    attempt,         \* fetch_url: the loop variable
    response,        \* fetch_url: "returned", "raised" or "none"
    timestamp,       \* backup_files: the timestamp it formatted
    idx,             \* backup_files, sync_to_wwwroot: position in the loop
    past_answers,    \* run: local
    all_words,       \* run: local
    common_words,    \* run: local
    raised,          \* the exception that reached run()'s handler, or "none"
    \* history, read by the properties only
    start,           \* the file system when this run began
    call_fs,         \* the file system when fetch_url was entered
    requests,        \* requests made by the current fetch_url call
    slept,           \* the sleeps of the current fetch_url call, in order
    written,         \* files write_word_file wrote in this run
    executed,        \* the steps of run() executed in this run
    prev_ret         \* the previous run's return value, -1 if none

fsVars == <<dirs, data, www, backups>>
envVars == <<clock, answers_server, wordlist_server, read_only>>
selfVars == <<dry_run, changes_made>>
callVars == <<url, attempt, response, requests, slept, call_fs>>
localVars == <<timestamp, idx, past_answers, all_words, common_words>>
histVars == <<start, written, prev_ret>>
vars == <<fsVars, envVars, selfVars, callVars, localVars, histVars,
          run_no, pc, ret, raised, executed>>

FileSystem == [dirs |-> dirs, data |-> data, www |-> www, backups |-> backups]

NoBackups == [k \in Names \X Timestamps |-> NoFile]

\* WordListUpdater.__init__ and the entry of run()
Init ==
    /\ data \in [Names -> WordsTxtChoices \cup PastTxtChoices \cup CommonTxtChoices]
    /\ data["words.txt"] \in WordsTxtChoices
    /\ data["past-answers.txt"] \in PastTxtChoices
    /\ data["common-words.txt"] \in CommonTxtChoices
    /\ www \in WwwChoices
    /\ \E d \in SUBSET {DATA_DIR} :
           /\ (\E n \in Names : exists(data[n])) => DATA_DIR \in d
           /\ dirs = d \cup (IF \E n \in Names : exists(www[n])
                             THEN {WWWROOT_DATA_DIR} ELSE {})
    /\ backups = NoBackups
    /\ clock = 0
    /\ answers_server \in AnswerServers
    /\ wordlist_server \in WordlistServers
    /\ read_only \in ReadOnlyChoices
    /\ dry_run \in BOOLEAN
    /\ changes_made = FALSE
    /\ run_no = 1
    /\ pc = "backup_files"
    /\ ret = -1
    /\ url = "none" /\ attempt = 0 /\ response = "none"
    /\ timestamp = 0 /\ idx = 1
    /\ past_answers = {} /\ all_words = {} /\ common_words = {}
    /\ raised = "none"
    /\ start = [dirs |-> dirs, data |-> data, www |-> www, backups |-> NoBackups]
    /\ call_fs = start
    /\ requests = 0 /\ slept = <<>>
    /\ written = {} /\ executed = {}
    /\ prev_ret = -1

(* ------------------------------------------------------------------ *)
(* backup_files                                                          *)
(* ------------------------------------------------------------------ *)

\* An exception reaches the handler of run(): `except Exception`.
Raise(e) ==
    /\ raised' = e
    /\ pc' = "except"

\* backup_files up to its loop: the dry-run return, or mkdir and the
\* timestamp, datetime.now() formatted to the second.
backup_files ==
    /\ pc = "backup_files"
    /\ executed' = executed \cup {"backup_files"}
    /\ IF dry_run
       THEN /\ pc' = "fetch_past_wordle_answers"
            /\ UNCHANGED <<dirs, timestamp, idx>>
       ELSE /\ dirs' = dirs \cup {DATA_DIR, BACKUP_DIR}
            /\ timestamp' = clock
            /\ idx' = 1
            /\ pc' = "backup_loop"
    /\ UNCHANGED <<data, www, backups, envVars, selfVars, callVars, histVars,
                   past_answers, all_words, common_words, run_no, ret, raised>>

\* One turn of the loop of backup_files.
backup_copy ==
    /\ pc = "backup_loop"
    /\ LET filename == FileNames[idx]
           source == data[filename]
       IN  backups' = IF exists(source)
                      THEN [backups EXCEPT ![<<filename, timestamp>>] =
                                               write_text(read_text(source))]
                      ELSE backups
    /\ IF idx < Len(FileNames)
       THEN idx' = idx + 1 /\ pc' = "backup_loop"
       ELSE idx' = 1 /\ pc' = "fetch_past_wordle_answers"
    /\ UNCHANGED <<dirs, data, www, envVars, selfVars, callVars, histVars,
                   timestamp, past_answers, all_words, common_words,
                   run_no, ret, raised, executed>>

(* ------------------------------------------------------------------ *)
(* fetch_url                                                             *)
(* ------------------------------------------------------------------ *)

Server(u) == IF u = "answers" THEN answers_server ELSE wordlist_server

\* Where fetch_url's caller goes on: both callers wrap the call in a try.
Continuation(u) == IF u = "answers" THEN "past_answers_from_response"
                   ELSE "wordlist_from_response"

\* The call of fetch_url
Call(u) ==
    /\ url' = u
    /\ attempt' = 0
    /\ response' = "none"
    /\ requests' = 0
    /\ slept' = <<>>
    /\ call_fs' = FileSystem
    /\ pc' = "fetch_url"

\* requests.get(...) and raise_for_status() succeed: return response.
fetch_url_returns ==
    /\ pc = "fetch_url"
    /\ attempt >= Server(url).failures
    /\ requests' = requests + 1
    /\ response' = "returned"
    /\ pc' = Continuation(url)
    /\ UNCHANGED <<fsVars, envVars, selfVars, localVars, histVars, url, attempt,
                   slept, call_fs, run_no, ret, raised, executed>>

\* Faulty variant: the backoff starts at 2 instead of 1.
fetch_url_retries_LongBackoff ==
    /\ pc = "fetch_url"
    /\ attempt < Server(url).failures
    /\ attempt < MaxAttempts - 1
    /\ requests' = requests + 1
    /\ slept' = Append(slept, 2 ^ (attempt + 1))
    /\ attempt' = attempt + 1
    /\ UNCHANGED <<fsVars, envVars, selfVars, localVars, histVars, url, response,
                   call_fs, run_no, pc, ret, raised, executed>>

\* requests.RequestException on an attempt before the last: back off.
fetch_url_retries ==
    /\ pc = "fetch_url"
    /\ attempt < Server(url).failures
    /\ attempt < MaxAttempts - 1
    /\ requests' = requests + 1
    /\ slept' = Append(slept, 2 ^ attempt)
    /\ attempt' = attempt + 1
    /\ UNCHANGED <<fsVars, envVars, selfVars, localVars, histVars, url, response,
                   call_fs, run_no, pc, ret, raised, executed>>

\* requests.RequestException on the last attempt: raise.
fetch_url_raises ==
    /\ pc = "fetch_url"
    /\ attempt < Server(url).failures
    /\ ~(attempt < MaxAttempts - 1)
    /\ requests' = requests + 1
    /\ response' = "raised"
    /\ pc' = Continuation(url)
    /\ UNCHANGED <<fsVars, envVars, selfVars, localVars, histVars, url, attempt,
                   slept, call_fs, run_no, ret, raised, executed>>

(* ------------------------------------------------------------------ *)
(* fetch_past_wordle_answers                                             *)
(* ------------------------------------------------------------------ *)

\* past_answers = set(), then the call of fetch_url in Method 1.
fetch_past_wordle_answers ==
    /\ pc = "fetch_past_wordle_answers"
    /\ executed' = executed \cup {"fetch_past_wordle_answers"}
    /\ past_answers' = {}
    /\ Call("answers")
    /\ UNCHANGED <<fsVars, envVars, selfVars, histVars, timestamp, idx,
                   all_words, common_words, run_no, ret, raised>>

\* {w.lower() for w in data['solutions'] if len(w) == 5}; nothing when the
\* call raised, response.json() raises, or the key is missing.
SolutionsOf(resp, server) ==
    IF resp = "returned" /\ server.json /\ server.has_solutions
    THEN {lower(server.solutions[k]) :
              k \in {j \in 1..Len(server.solutions) : Len(server.solutions[j]) = 5}}
    ELSE {}

\* Faulty variant: the existing file is merged in whatever the remote yielded.
PastAnswersResult_AlwaysMerges(found, file) ==
    found \cup (IF exists(file) THEN ReadWordSet(file) ELSE {})

\* Method 3: the existing file, when the methods before it found nothing.
PastAnswersResult(found, file) ==
    IF found # {} THEN found
    ELSE IF exists(file) THEN ReadWordSet(file) ELSE {}

\* The rest of fetch_past_wordle_answers, from response.json() on.
past_answers_from_response ==
    /\ pc = "past_answers_from_response"
    /\ past_answers' = PastAnswersResult(SolutionsOf(response, answers_server),
                                         data["past-answers.txt"])
    /\ pc' = "fetch_comprehensive_wordlist"
    /\ UNCHANGED <<fsVars, envVars, selfVars, callVars, histVars, timestamp, idx,
                   all_words, common_words, run_no, ret, raised, executed>>

(* ------------------------------------------------------------------ *)
(* fetch_comprehensive_wordlist                                          *)
(* ------------------------------------------------------------------ *)

\* all_words from the existing file
ExistingWords(file) == IF exists(file) THEN ReadWordSet(file) ELSE {}

\* The seed, then the call of fetch_url.
fetch_comprehensive_wordlist ==
    /\ pc = "fetch_comprehensive_wordlist"
    /\ executed' = executed \cup {"fetch_comprehensive_wordlist"}
    /\ all_words' = ExistingWords(data["words.txt"])
    /\ Call("wordlist")
    /\ UNCHANGED <<fsVars, envVars, selfVars, histVars, timestamp, idx,
                   past_answers, common_words, run_no, ret, raised>>

\* Faulty variant: the isalpha() test is left out.
ScrabbleWords_NoAlphaTest(text) ==
    LET l == split(text)
    IN  {lower(l[k]) : k \in {j \in 1..Len(l) : Len(l[j]) = 5}}

\* {word.lower() for word in response.text.split('\n')
\*      if len(word) == 5 and word.isalpha()}
ScrabbleWords(text) ==
    LET l == split(text)
    IN  {lower(l[k]) : k \in {j \in 1..Len(l) : Len(l[j]) = 5 /\ isalpha(l[j])}}

\* Faulty variant: the call of fetch_url stands outside any try, so that its
\* exception reaches run().
wordlist_from_response_Uncaught ==
    /\ pc = "wordlist_from_response"
    /\ IF response = "returned"
       THEN /\ all_words' = all_words \cup ScrabbleWords(wordlist_server.text)
            /\ pc' = "determine_common_words"
            /\ UNCHANGED raised
       ELSE /\ Raise("RequestException")
            /\ UNCHANGED all_words
    /\ UNCHANGED <<fsVars, envVars, selfVars, callVars, histVars, timestamp, idx,
                   past_answers, common_words, run_no, ret, executed>>

\* The rest of fetch_comprehensive_wordlist: the update, or the except branch.
wordlist_from_response ==
    /\ pc = "wordlist_from_response"
    /\ all_words' = IF response = "returned"
                    THEN all_words \cup ScrabbleWords(wordlist_server.text)
                    ELSE all_words
    /\ pc' = "determine_common_words"
    /\ UNCHANGED <<fsVars, envVars, selfVars, callVars, histVars, timestamp, idx,
                   past_answers, common_words, run_no, ret, raised, executed>>

(* ------------------------------------------------------------------ *)
(* determine_common_words                                                *)
(* ------------------------------------------------------------------ *)

CommonWords(all, past, file) ==
    (past \cup (IF exists(file) THEN ReadWordSet(file) ELSE {})) \cap all

determine_common_words ==
    /\ pc = "determine_common_words"
    /\ executed' = executed \cup {"determine_common_words"}
    /\ common_words' = CommonWords(all_words, past_answers, data["common-words.txt"])
    /\ pc' = "mkdir"
    /\ UNCHANGED <<fsVars, envVars, selfVars, callVars, histVars, timestamp, idx,
                   past_answers, all_words, run_no, ret, raised>>

\* DATA_DIR.mkdir(parents=True, exist_ok=True) in run()
mkdir_data_dir ==
    /\ pc = "mkdir"
    /\ dirs' = dirs \cup {DATA_DIR}
    /\ pc' = "write_past_answers"
    /\ UNCHANGED <<data, www, backups, envVars, selfVars, callVars, localVars,
                   histVars, run_no, ret, raised, executed>>

(* ------------------------------------------------------------------ *)
(* write_word_file                                                       *)
(* ------------------------------------------------------------------ *)

\* existing_content of write_word_file
ExistingContent(file) == IF exists(file) THEN read_text(file) ELSE <<>>

\* Faulty variant: the existing content is compared as it is, not stripped.
Differs_Unstripped(words, file) == Content(words) # ExistingContent(file)

\* content != existing_content.strip()
Differs(words, file) == Content(words) # strip(ExistingContent(file))

\* write_text on an existing file that cannot be written raises.
Unwritable(dir, filename, file) == exists(file) /\ <<dir, filename>> \in read_only

\* write_word_file(DATA_DIR / filename, words, ...), then on to `next`.
write_word_file(at, filename, words, next) ==
    /\ pc = at
    /\ ~(Differs(words, data[filename]) /\ ~dry_run
           /\ Unwritable(DATA_DIR, filename, data[filename]))
    /\ executed' = executed \cup {at}
    /\ pc' = next
    /\ IF Differs(words, data[filename])
       THEN /\ changes_made' = TRUE
            /\ IF dry_run
               THEN UNCHANGED <<data, written>>
               ELSE /\ data' = [data EXCEPT ![filename] = write_text(Content(words))]
                    /\ written' = written \cup {filename}
       ELSE UNCHANGED <<data, changes_made, written>>
    /\ UNCHANGED <<dirs, www, backups, envVars, dry_run, callVars, localVars,
                   start, prev_ret, run_no, ret, raised>>

\* filepath.write_text raises OSError, after self.changes_made = True.
write_word_file_fails(at, filename, words) ==
    /\ pc = at
    /\ Differs(words, data[filename])
    /\ ~dry_run
    /\ Unwritable(DATA_DIR, filename, data[filename])
    /\ changes_made' = TRUE
    /\ executed' = executed \cup {at}
    /\ Raise("OSError")
    /\ UNCHANGED <<fsVars, envVars, dry_run, callVars, localVars, start, written,
                   prev_ret, run_no, ret>>

\* The three calls of run(), in its order.
write_past_answers ==
    write_word_file("write_past_answers", "past-answers.txt", past_answers,
                    "write_common_words")

write_common_words ==
    write_word_file("write_common_words", "common-words.txt", common_words,
                    "write_words")

write_words ==
    write_word_file("write_words", "words.txt", all_words, "sync_to_wwwroot")

write_words_fails ==
    write_word_file_fails("write_words", "words.txt", all_words)

(* ------------------------------------------------------------------ *)
(* sync_to_wwwroot                                                       *)
(* ------------------------------------------------------------------ *)

\* sync_to_wwwroot up to its loop: the dry-run return, or mkdir.
sync_to_wwwroot ==
    /\ pc = "sync_to_wwwroot"
    /\ executed' = executed \cup {"sync_to_wwwroot"}
    /\ IF dry_run
       THEN /\ pc' = "return"
            /\ UNCHANGED <<dirs, idx>>
       ELSE /\ dirs' = dirs \cup {WWWROOT_DATA_DIR}
            /\ idx' = 1
            /\ pc' = "sync_loop"
    /\ UNCHANGED <<data, www, backups, envVars, selfVars, callVars, histVars,
                   timestamp, past_answers, all_words, common_words,
                   run_no, ret, raised>>

\* Faulty variant: a copy that exists is not overwritten.
SyncedCopy_KeepsExisting(source, dest) ==
    IF exists(source) /\ ~exists(dest) THEN write_text(read_text(source)) ELSE dest

\* if source.exists(): dest.write_text(source.read_text(...)): what dest holds
\* after one turn of the loop.
SyncedCopy(source, dest) ==
    IF exists(source) THEN write_text(read_text(source)) ELSE dest

\* One turn of the loop of sync_to_wwwroot.
sync_copy ==
    /\ pc = "sync_loop"
    /\ ~(exists(data[FileNames[idx]])
           /\ Unwritable(WWWROOT_DATA_DIR, FileNames[idx], www[FileNames[idx]]))
    /\ LET filename == FileNames[idx]
       IN  www' = [www EXCEPT ![filename] = SyncedCopy(data[filename], www[filename])]
    /\ IF idx < Len(FileNames)
       THEN idx' = idx + 1 /\ pc' = "sync_loop"
       ELSE idx' = 1 /\ pc' = "return"
    /\ UNCHANGED <<dirs, data, backups, envVars, selfVars, callVars, histVars,
                   timestamp, past_answers, all_words, common_words,
                   run_no, ret, raised, executed>>

\* dest.write_text raises OSError.
sync_copy_fails ==
    /\ pc = "sync_loop"
    /\ exists(data[FileNames[idx]])
    /\ Unwritable(WWWROOT_DATA_DIR, FileNames[idx], www[FileNames[idx]])
    /\ Raise("OSError")
    /\ UNCHANGED <<fsVars, envVars, selfVars, callVars, localVars, histVars,
                   run_no, ret, executed>>

(* ------------------------------------------------------------------ *)
(* run: its two ends, and the next invocation                            *)
(* ------------------------------------------------------------------ *)

\* The end of the try block: return 0 with or without changes.
run_returns ==
    /\ pc = "return"
    /\ ret' = 0
    /\ pc' = "done"
    /\ UNCHANGED <<fsVars, envVars, selfVars, callVars, localVars, histVars,
                   run_no, raised, executed>>

\* except Exception: return 1
run_except ==
    /\ pc = "except"
    /\ ret' = 1
    /\ pc' = "done"
    /\ UNCHANGED <<fsVars, envVars, selfVars, callVars, localVars, histVars,
                   run_no, raised, executed>>

\* The script is invoked again: main() builds a new WordListUpdater with the
\* same flags; the clock shows the same second or a later one (a dry run
\* never reads it, so there it is left alone).
main ==
    /\ pc = "done"
    /\ run_no < MaxRuns
    /\ run_no' = run_no + 1
    /\ clock' \in (IF dry_run THEN {clock} ELSE {clock, clock + 1})
    /\ changes_made' = FALSE
    /\ pc' = "backup_files"
    /\ ret' = -1
    /\ prev_ret' = ret
    /\ url' = "none" /\ attempt' = 0 /\ response' = "none"
    /\ timestamp' = 0 /\ idx' = 1
    /\ past_answers' = {} /\ all_words' = {} /\ common_words' = {}
    /\ raised' = "none"
    /\ start' = FileSystem
    /\ call_fs' = FileSystem
    /\ requests' = 0 /\ slept' = <<>>
    /\ written' = {} /\ executed' = {}
    /\ UNCHANGED <<fsVars, answers_server, wordlist_server, read_only, dry_run>>

Next ==
    \/ backup_files
    \/ backup_copy
    \/ fetch_past_wordle_answers
    \/ fetch_url_returns
    \/ fetch_url_retries
    \/ fetch_url_raises
    \/ past_answers_from_response
    \/ fetch_comprehensive_wordlist
    \/ wordlist_from_response
    \/ determine_common_words
    \/ mkdir_data_dir
    \/ write_past_answers
    \/ write_common_words
    \/ write_words
    \/ write_words_fails
    \/ sync_to_wwwroot
    \/ sync_copy
    \/ sync_copy_fails
    \/ run_returns
    \/ run_except
    \/ main

Spec == Init /\ [][Next]_vars

(* ------------------------------------------------------------------ *)
(* Vocabulary of the properties                                          *)
(* ------------------------------------------------------------------ *)

\* The lines of a text: the maximal pieces between newlines.
Lines(t) ==
    { SubSeq(t, i, j) : <<i, j>> \in
        { p \in (1..(Len(t) + 1)) \X (0..Len(t)) :
            /\ p[1] <= p[2] + 1
            /\ (p[1] = 1 \/ t[p[1] - 1] = NL)
            /\ (p[2] = Len(t) \/ t[p[2] + 1] = NL)
            /\ \A k \in p[1]..p[2] : t[k] # NL } }

\* A text without its leading and trailing whitespace.
Trimmed(t) ==
    LET inked == {k \in 1..Len(t) : ~IsSpace(t[k])}
    IN  IF inked = {} THEN <<>>
        ELSE SubSeq(t, CHOOSE a \in inked : \A k \in inked : a <= k,
                       CHOOSE b \in inked : \A k \in inked : b >= k)

\* The text of a file as Python reads it, nothing for a missing file.
TextOf(file) == IF exists(file) THEN TranslateNewlines(file) ELSE <<>>

\* The word set of a data file: its non-blank lines, each one trimmed.
WordSetOf(file) == {Trimmed(l) : l \in Lines(TextOf(file))} \ {<<>>}

\* The step of run() that writes each file, and the set it writes.
WriteStep(n) ==
    CASE n = "past-answers.txt" -> "write_past_answers"
      [] n = "common-words.txt" -> "write_common_words"
      [] n = "words.txt" -> "write_words"

WordsFor(n) ==
    CASE n = "past-answers.txt" -> past_answers
      [] n = "common-words.txt" -> common_words
      [] n = "words.txt" -> all_words

AllSteps ==
    {"backup_files", "fetch_past_wordle_answers", "fetch_comprehensive_wordlist",
     "determine_common_words", "write_past_answers", "write_common_words",
     "write_words", "sync_to_wwwroot"}

(* ------------------------------------------------------------------ *)
(* C1                                                                    *)
(* ------------------------------------------------------------------ *)

\* C1: in every state of a run without dry_run in which common-words.txt has
\* been written, the word set of common-words.txt on disk is a subset of the
\* word set of words.txt on disk.
C1_CommonSubsetOfWordsOnDisk ==
    (~dry_run /\ "common-words.txt" \in written)
        => WordSetOf(data["common-words.txt"]) \subseteq WordSetOf(data["words.txt"])

(* ------------------------------------------------------------------ *)
(* C2                                                                    *)
(* ------------------------------------------------------------------ *)

\* C2: when two runs without dry_run follow each other against the same
\* servers and both return 0, the second leaves the three data files as they
\* were and ends with changes_made false.
C2_SecondRunChangesNothing ==
    (run_no >= 2 /\ ~dry_run /\ prev_ret = 0 /\ pc = "done" /\ ret = 0)
        => (data = start.data /\ ~changes_made)

(* ------------------------------------------------------------------ *)
(* C3                                                                    *)
(* ------------------------------------------------------------------ *)

\* C3: with dry_run set, the file system (directories and files) is in every
\* state of a run what it was when the run began.
C3_DryRunLeavesFileSystem ==
    dry_run => FileSystem = start

(* ------------------------------------------------------------------ *)
(* C4                                                                    *)
(* ------------------------------------------------------------------ *)

\* The words the answers endpoint yields: none unless one of the three
\* attempts succeeds with JSON that has 'solutions'; else its entries of
\* five characters, in lower case.
RemoteAnswers ==
    IF /\ answers_server.failures < MaxAttempts
       /\ answers_server.json
       /\ answers_server.has_solutions
    THEN {lower(w) : w \in {x \in set(answers_server.solutions) : Len(x) = 5}}
    ELSE {}

\* C4: when fetch_past_wordle_answers has returned, its result is the remote
\* words if there are any; otherwise the lines of the trimmed text of
\* past-answers.txt, never the empty set, if that file exists; otherwise the
\* empty set.  So the result is empty only with no remote words and no file,
\* and {apple, beach} on disk with the server down gives {apple, beach}.
C4_PastAnswersFallback ==
    pc = "fetch_comprehensive_wordlist" =>
        LET file == data["past-answers.txt"]
        IN  /\ RemoteAnswers # {} => past_answers = RemoteAnswers
            /\ (RemoteAnswers = {} /\ exists(file)) =>
                   /\ past_answers = Lines(Trimmed(TextOf(file)))
                   /\ past_answers # {}
            /\ (RemoteAnswers = {} /\ ~exists(file)) => past_answers = {}
            /\ past_answers = {} => (RemoteAnswers = {} /\ ~exists(file))
            /\ (file = join(<<apple, beach>>) /\ answers_server.failures = MaxAttempts)
                   => past_answers = {apple, beach}

\* The scenario of C4: the fetch failed three times and the file's two words
\* came back.
C4_Witness ==
    /\ pc = "fetch_comprehensive_wordlist"
    /\ response = "raised"
    /\ requests = MaxAttempts
    /\ data["past-answers.txt"] = join(<<apple, beach>>)
    /\ past_answers = {apple, beach}

(* ------------------------------------------------------------------ *)
(* C5                                                                    *)
(* ------------------------------------------------------------------ *)

\* C5: no RequestException reaches run()'s handler; a run returns 1 only
\* after an exception reached the handler, and otherwise returns 0 having
\* executed every step; with every file writable a run returns 0 whatever the
\* two servers do.
C5_NetworkFailureNeverCrashes ==
    /\ raised # "RequestException"
    /\ (pc = "done" /\ ret = 1) => raised # "none"
    /\ (pc = "done" /\ raised = "none") => (ret = 0 /\ executed = AllSteps)
    /\ (pc = "done" /\ read_only = {}) => ret = 0
    /\ pc = "done" => ret \in {0, 1}

\* Both fetches failed on all three attempts and the run still wrote, synced
\* and returned 0.
C5_Witness ==
    /\ pc = "done"
    /\ ret = 0
    /\ ~dry_run
    /\ answers_server.failures = MaxAttempts
    /\ wordlist_server.failures = MaxAttempts
    /\ executed = AllSteps
    /\ written # {}

(* ------------------------------------------------------------------ *)
(* C6                                                                    *)
(* ------------------------------------------------------------------ *)

\* C6: in a run without dry_run, once backup_files is through, the backup
\* directory exists and holds, under this run's timestamp, the text each
\* data file had when the run began; and no backup an earlier run wrote is
\* changed or removed.
C6_BackupsSnapshotAndAdditive ==
    /\ (~dry_run /\ pc \notin {"backup_files", "backup_loop"}) =>
           /\ BACKUP_DIR \in dirs
           /\ \A n \in Names : exists(start.data[n]) =>
                  backups[<<n, timestamp>>] = TextOf(start.data[n])
    /\ \A k \in DOMAIN backups : exists(start.backups[k]) =>
           backups[k] = start.backups[k]

(* ------------------------------------------------------------------ *)
(* C7                                                                    *)
(* ------------------------------------------------------------------ *)

\* The valid words of the remote list: none unless one of the three attempts
\* succeeds; else its lines of five letters, in lower case.
RemoteWords ==
    IF wordlist_server.failures < MaxAttempts
    THEN {lower(w) : w \in {x \in Lines(wordlist_server.text) :
                                Len(x) = 5 /\ \A k \in 1..5 : IsUpper(x[k]) \/ IsLower(x[k])}}
    ELSE {}

\* Adjacent lines of a text ascend strictly.
SortedLines(t) ==
    LET l == split(t)
    IN  \A k \in 1..(Len(l) - 1) : StrLess(l[k], l[k + 1])

\* C7: when fetch_comprehensive_wordlist has returned, its result is the
\* lines of the trimmed text of words.txt (nothing if absent) together with
\* the valid remote words; every word words.txt held when the run began is in
\* words.txt in every later state; a words.txt this run wrote is sorted; and
\* {beach, apple} on disk plus zebra from the remote list is written as
\* apple, beach, zebra, one per line.
C7_ComprehensiveWordlist ==
    /\ pc = "determine_common_words" =>
           all_words = (IF exists(data["words.txt"])
                        THEN Lines(Trimmed(TextOf(data["words.txt"]))) ELSE {})
                       \cup RemoteWords
    /\ WordSetOf(start.data["words.txt"]) \subseteq WordSetOf(data["words.txt"])
    /\ "words.txt" \in written => SortedLines(data["words.txt"])
    /\ ( /\ run_no = 1
         /\ "words.txt" \in written
         /\ start.data["words.txt"] = join(<<beach, apple>>) \o <<NL>>
         /\ RemoteWords = {zebra, apple} )
       => data["words.txt"] = apple \o <<NL>> \o beach \o <<NL>> \o zebra

\* The zebra scenario of C7 happened.
C7_Witness ==
    /\ run_no = 1
    /\ pc = "done"
    /\ ret = 0
    /\ start.data["words.txt"] = join(<<beach, apple>>) \o <<NL>>
    /\ zebra \in all_words
    /\ data["words.txt"] = apple \o <<NL>> \o beach \o <<NL>> \o zebra

(* ------------------------------------------------------------------ *)
(* C8                                                                    *)
(* ------------------------------------------------------------------ *)

\* C8: one call of fetch_url makes at most three requests; it returns at the
\* first request that succeeds; it sleeps 1 after the first failure and 2
\* after the second and not after the third, where it raises; it ends no
\* other way; and the file system is untouched from its entry to its end.
C8_FetchUrlRetries ==
    /\ requests <= MaxAttempts
    /\ slept \in {<<>>, <<1>>, <<1, 2>>}
    /\ pc = "fetch_url" =>
           /\ response = "none"
           /\ Len(slept) = requests
           /\ \A k \in 1..requests : k <= Server(url).failures
    /\ pc \in {"past_answers_from_response", "wordlist_from_response"} =>
           /\ response \in {"returned", "raised"}
           /\ FileSystem = call_fs
           /\ response = "returned" =>
                  /\ requests = Server(url).failures + 1
                  /\ Len(slept) = requests - 1
           /\ response = "raised" =>
                  /\ requests = MaxAttempts
                  /\ Server(url).failures >= MaxAttempts
                  /\ slept = <<1, 2>>

\* A call that failed twice, slept 1 and 2, and returned the third response.
C8_Witness ==
    /\ pc = "wordlist_from_response"
    /\ response = "returned"
    /\ requests = 3
    /\ slept = <<1, 2>>

(* ------------------------------------------------------------------ *)
(* C9                                                                    *)
(* ------------------------------------------------------------------ *)

\* write_word_file has compared file n in this run.
Compared(n) == WriteStep(n) \in executed

\* The sorted, newline-joined set differs from the trimmed text file n had
\* when the run began; a missing file counts as empty text.
DiffersAtStart(n) == Content(WordsFor(n)) # Trimmed(TextOf(start.data[n]))

\* A file is touched by its own comparison only, and only when it differed;
\* changes_made says that a compared file differed.
WritesOnlyOnDifference ==
    /\ \A n \in Names : (~Compared(n) \/ ~DiffersAtStart(n) \/ dry_run)
                            => data[n] = start.data[n]
    /\ changes_made <=> \E n \in Names : Compared(n) /\ DiffersAtStart(n)

C10_MirrorEqualsPrimary ==
    (pc = "done" /\ ret = 0 /\ ~dry_run) =>
        \A n \in Names :
            www[n] = (IF exists(data[n]) THEN TextOf(data[n]) ELSE NoFile)

\* C10 as amended: the sync starts after the three comparisons; after a run
\* without dry_run that returns 0, wwwroot/data exists, each file that exists
\* under Data has its text (line ends read as "\n") under wwwroot/data,
\* changed by this run or not and whatever was there before, and a file
\* missing under Data is what it was under wwwroot/data.
C10_SyncMirrorsExistingFiles ==
    /\ pc \in {"sync_loop", "return"} =>
           {WriteStep(n) : n \in Names} \subseteq executed
    /\ (pc = "done" /\ ret = 0 /\ ~dry_run) =>
           /\ WWWROOT_DATA_DIR \in dirs
           /\ \A n \in Names :
                  www[n] = (IF exists(data[n]) THEN TextOf(data[n])
                            ELSE start.www[n])

\* A run returned 0 and replaced an older copy of a file it had not changed.
C10_Witness ==
    /\ pc = "done"
    /\ ret = 0
    /\ ~dry_run
    /\ \E n \in Names :
           /\ n \notin written
           /\ exists(data[n])
           /\ start.www[n] = crane
           /\ www[n] = TextOf(data[n])
           /\ www[n] # crane
====
